---- MODULE Spec2Model ----
(***************************************************************************)
(* Refresh-token lifecycle of the express_jwt auth layer: registration,    *)
(* login (Express route and auth-login Lambda handler) and refresh         *)
(* rotation over the DynamoDB refresh-token table, the repository's        *)
(* limitUserTokens and cleanExpiredTokens, and the protected route behind  *)
(* authenticateRequest.                                                    *)
(*                                                                         *)
(* Every `await` on a store call is a step of its own, so the store calls  *)
(* of concurrent requests interleave in every order.  The synchronous code *)
(* that follows an await runs in the same step as the await's completion.  *)
(*                                                                         *)
(* Time is a counter of clock units; one unit is the resolution of the JWT *)
(* iat/exp claims.  The 15 minute and 7 day horizons are scaled to         *)
(* ACCESS_TOKEN_EXPIRY and REFRESH_TOKEN_EXPIRY / StoreHorizon units: what *)
(* the code depends on is that a refresh token's signed expiry and its     *)
(* item's expires_at are the same distance from the moment of issue.       *)
(***************************************************************************)
EXTENDS Integers, FiniteSets, Sequences, TLC

\* ---------------------------------------------------------------- bounds
NumReqs == 3
MaxTime == 2
MaxFail == 1
MaxLimit == 2

\* ------------------------------------------------------ program constants
ACCESS_TOKEN_EXPIRY == 1
REFRESH_TOKEN_EXPIRY == 1
StoreHorizon == 1
ACCESS_TOKEN_SECRET == "access-secret"
REFRESH_TOKEN_SECRET == "refresh-secret"

Reqs == 1..NumReqs
Emails == {"a@x.com", "b@x.com"}
Registrable == {"a@x.com"}
Passwords == {"Correct1"}
Guesses == {"Wrong222"}
Names == {"Ann"}

\* A string value of a request body: a plain text, or a text that happens to
\* be the bcrypt digest of a plain text.  The empty string is a missing field.
Text(p) == [text |-> p]
Missing == Text("")
bcryptHash(s) == [bcrypt |-> s]
bcryptCompare(s, hash) == hash = bcryptHash(s)
PasswordInputs ==
    {Text(p) : p \in Passwords \cup Guesses} \cup {bcryptHash(Text(p)) : p \in Passwords} \cup {Missing}

None == [none |-> TRUE]
Has(rec, f) == f \in DOMAIN rec

\* ----------------------------------------------------------- token codec
jwtSign(payload, secret, expiry, t) ==
    [key |-> secret, sub |-> payload.sub, email |-> payload.email, iat |-> t, exp |-> t + expiry]

generateAccessToken(user, secret, expiry, t) ==
    jwtSign([sub |-> user.id, email |-> user.email], secret, expiry, t)

generateRefreshToken(user, secret, expiry, t) ==
    jwtSign([sub |-> user.id, email |-> user.email], secret, expiry, t)

verifyToken_NoSignatureCheck(token, secret, t) ==
    IF Has(token, "raises") THEN None
    ELSE IF t >= token.exp
    THEN [valid |-> TRUE, error |-> [errorName |-> "TokenExpiredError", expiredAt |-> token.exp]]
    ELSE [valid |-> TRUE,
          payload |-> [sub |-> token.sub, email |-> token.email, iat |-> token.iat, exp |-> token.exp]]

verifyToken(token, secret, t) ==
    IF Has(token, "raises") THEN None
    ELSE IF ~Has(token, "key") \/ token.key # secret
    THEN [valid |-> FALSE, error |-> [errorName |-> "JsonWebTokenError"]]
    ELSE IF t >= token.exp
    THEN [valid |-> TRUE, error |-> [errorName |-> "TokenExpiredError", expiredAt |-> token.exp]]
    ELSE [valid |-> TRUE,
          payload |-> [sub |-> token.sub, email |-> token.email, iat |-> token.iat, exp |-> token.exp]]

\* A token no secret of the server signed (tampered or made up).
ForgedToken == [key |-> "forged", sub |-> 1, email |-> "a@x.com", iat |-> 0, exp |-> MaxTime + REFRESH_TOKEN_EXPIRY + 1]

\* An input on which jwt.verify raises an error that is none of
\* TokenExpiredError, JsonWebTokenError and NotBeforeError: verifyToken's
\* catch falls through to `return null`.
UnclassifiedToken == [raises |-> "Error"]

\* ---------------------------------------------------- refresh-token store
sha256(token) == [sha256 |-> token]

PutItem_Dropped(table, item) == table

PutItem(table, item) ==
    [h \in DOMAIN table \cup {item.token_hash} |-> IF h = item.token_hash THEN item ELSE table[h]]

\* UpdateCommand 'SET revoked = :revoked' with no ConditionExpression: it
\* writes the attribute on the item under the key, and creates the item when
\* there is none.
UpdateRevoked(table, h) ==
    IF h \in DOMAIN table
    THEN [table EXCEPT ![h] = [f \in DOMAIN table[h] \cup {"revoked"} |-> IF f = "revoked" THEN TRUE ELSE table[h][f]]]
    ELSE [k \in DOMAIN table \cup {h} |-> IF k = h THEN [token_hash |-> h, revoked |-> TRUE] ELSE table[k]]

newToken_IdAsUser(id, userId, token, t) ==
    [id |-> id, token_hash |-> sha256(token), user_id |-> id,
     expires_at |-> t + StoreHorizon, revoked |-> FALSE, created_at |-> t, last_used_at |-> t]

newToken(id, userId, token, t) ==
    [id |-> id, token_hash |-> sha256(token), user_id |-> userId,
     expires_at |-> t + StoreHorizon, revoked |-> FALSE, created_at |-> t, last_used_at |-> t]

getRefreshToken_IgnoresRevoked(table, token) ==
    LET tokenHash == sha256(token) IN
    IF tokenHash \notin DOMAIN table THEN None ELSE table[tokenHash]

getRefreshToken(table, token) ==
    LET tokenHash == sha256(token) IN
    IF tokenHash \notin DOMAIN table THEN None
    ELSE IF table[tokenHash].revoked THEN None
    ELSE table[tokenHash]

\* Items of the user_id-index for userId (an item without user_id is not in the index).
QueryByUser(table, userId) ==
    {h \in DOMAIN table : Has(table[h], "user_id") /\ table[h].user_id = userId}

revokeAllTargets_OnlyRevoked(table, userId) ==
    {h \in QueryByUser(table, userId) : table[h].revoked}

revokeAllTargets(table, userId) ==
    {h \in QueryByUser(table, userId) : ~table[h].revoked}

\* --------------------------------------------------------------- responses
Response(status, body) == [status |-> status, body |-> body, cookies |-> <<>>]
NoResponse == [status |-> 0, body |-> None, cookies |-> <<>>]

ValidationFailed(entry) ==
    IF entry = "lambda" THEN Response(400, [error |-> "Email and password are required"])
    ELSE Response(400, [errors |-> "Password is required"])
UserNotFound(entry) == Response(401, [error |-> "Invalid credentials"])
PasswordMismatch(entry) == Response(401, [error |-> "Invalid credentials"])
ServerError_As401(entry, errName) ==
    IF entry = "lambda" THEN Response(401, [error |-> "Login failed", message |-> errName])
    ELSE Response(401, [error |-> "500 Internal Server Error", type |-> errName])
ServerError(entry, errName) ==
    IF entry = "lambda" THEN Response(500, [error |-> "Login failed", message |-> errName])
    ELSE Response(500, [error |-> "500 Internal Server Error", type |-> errName])
extractUserInfo(user) == [email |-> user.email, name |-> user.name]
LoginOk(entry, user, accessToken, refreshToken) ==
    [status |-> 200,
     body |-> IF entry = "lambda"
              THEN [success |-> TRUE, accessToken |-> accessToken,
                    user |-> [id |-> user.id, email |-> user.email, name |-> user.name],
                    message |-> "Login successful"]
              ELSE [accessToken |-> accessToken, user |-> extractUserInfo(user)],
     cookies |-> <<accessToken, refreshToken>>]

passwordMatches(entry, password, user) ==
    IF entry = "lambda" THEN user.password = password
    ELSE bcryptCompare(password, user.password)

\* POST /auth/refresh
RefreshTokenNotFound == Response(401, [error |-> "Refresh token not found"])
InvalidRefreshToken == Response(403, [error |-> "Invalid refresh token"])
InvalidOrExpired(result) == Response(403, [error |-> "Invalid or expired refresh token", details |-> result.error])
NotFoundOrRevoked == Response(403, [error |-> "Refresh token not found or revoked"])
RefreshTokenExpired == Response(403, [error |-> "Refresh token expired"])
RefreshOk(accessToken, newRefreshToken) ==
    [status |-> 200, body |-> [success |-> TRUE], cookies |-> <<accessToken, newRefreshToken>>]

\* ------------------------------------------------------------------ state
VARIABLES
    now,        \* the clock (Date.now())
    users,      \* users table: email -> user item or None
    plain,      \* history: the password each user was created with
    store,      \* refresh-token table: token_hash -> item
    nextId,     \* next crypto.randomUUID() of a refresh-token item
    fails,      \* store calls that have failed so far
    pc,         \* each request's position
    loc,        \* each request's local variables, and what it observed
    resp,       \* each request's response
    pend,       \* per request: revoke writes sent by revokeAllUserTokens and not yet settled
    conc        \* history: the requests in flight when a request started

vars == <<now, users, plain, store, nextId, fails, pc, loc, resp, pend, conc>>

\* entry: "express" | "lambda" | "refresh" | "limit" | "sweep" | "protected".
\* cred, verified, seen, got, createdId, oldRevokedAtResponse are history
\* fields: how the credentials compared with the registered password, what
\* verifyToken said, the state of the item when getRefreshToken read it and
\* whether it returned an item, the id of the item the request wrote, and
\* whether the presented token's item was revoked when the 200 was sent.
\* tokens is the set of items the operation's query or scan returned (for
\* limitUserTokens, tokensToRevoke), as their keys; maxTokens and
\* sweepNow are limitUserTokens' argument and cleanExpiredTokens' `now`.
\* revokeResult is what `await revokeRefreshToken(..)` evaluated to, and
\* opResult how revokeAllUserTokens, limitUserTokens or cleanExpiredTokens
\* ended: [returned |-> n] or [threw |-> name].  landed and flipped count the
\* operation's writes that succeeded and those that took an item from not
\* revoked to revoked; active is the set of the user's items that were active
\* when limitUserTokens read them; next is whether authenticateRequest called
\* next(); failure is the store call of the request that failed and how the
\* failure reached the caller of the store operation; owner is the user_id of
\* the item getRefreshToken returned; scanned is the keys the pages of a sweep
\* have returned so far, lastEvaluatedKey whether its last page carried one,
\* pages the number of pages it was answered.
NoLoc == [entry |-> "none", cred |-> "none", user |-> None, token |-> None, result |-> None,
          verified |-> "none", seen |-> "none", got |-> "none",
          accessToken |-> None, refreshToken |-> None, item |-> None,
          createdId |-> 0, oldRevokedAtResponse |-> FALSE,
          tokens |-> {}, maxTokens |-> 0, sweepNow |-> 0,
          revokeResult |-> "none", opResult |-> None,
          landed |-> 0, flipped |-> 0, active |-> {}, next |-> FALSE, failure |-> None,
          owner |-> 0, scanned |-> {}, lastEvaluatedKey |-> FALSE, pages |-> 0]

\* What stays of a request's locals once it has answered.
Settled(l) ==
    [l EXCEPT !.user = IF l.user = None THEN None ELSE [id |-> l.user.id],
              !.result = None, !.accessToken = None, !.refreshToken = None, !.item = None,
              !.tokens = {}, !.scanned = {}, !.lastEvaluatedKey = FALSE]

Init ==
    /\ now = 0
    /\ users = [e \in Emails |-> None]
    /\ plain = [e \in Emails |-> Missing]
    /\ store = [h \in {} |-> None]
    /\ nextId = 1
    /\ fails = 0
    /\ pc = [r \in Reqs |-> "idle"]
    /\ loc = [r \in Reqs |-> NoLoc]
    /\ resp = [r \in Reqs |-> NoResponse]
    /\ pend = [r \in Reqs |-> {}]
    /\ conc = [r \in Reqs |-> {}]

\* The request slots of the run.
Slots == DOMAIN pc

InFlight(r) == pc[r] \notin {"idle", "done"} \/ pend[r] # {}
CanStart(r) == pc[r] = "idle" /\ \A q \in Slots : q < r => pc[q] # "idle"
CanFail == fails < MaxFail

\* The tokens clients hold: the cookies of the 200 responses.
Delivered == UNION {{resp[r].cookies[i] : i \in DOMAIN resp[r].cookies} : r \in Slots}

Tick ==
    /\ now < MaxTime
    /\ now' = now + 1
    /\ UNCHANGED <<users, plain, store, nextId, fails, pc, loc, resp, pend, conc>>

\* ------------------------------------------------------- POST /auth/register
createUser(id, userData) ==
    [id |-> id, email |-> userData.email, password |-> bcryptHash(userData.password), name |-> userData.name]

\* The route's getUserByEmail check and createUser's PutCommand are taken as
\* one step: an email that has a user is answered 400 and changes nothing.
Register(email, password, name) ==
    /\ users[email] = None
    /\ users' = [users EXCEPT ![email] =
                    createUser(Cardinality({e \in Emails : users[e] # None}) + 1,
                               [email |-> email, password |-> password, name |-> name])]
    /\ plain' = [plain EXCEPT ![email] = password]
    /\ UNCHANGED <<now, store, nextId, fails, pc, loc, resp, pend, conc>>

\* ----------------------------------------------------------------- helpers
Returned(n) == [returned |-> n]
Threw(errName) == [threw |-> errName]
Failure(op, surfaced) == [op |-> op, surfaced |-> surfaced]

\* The locals after one more 'SET revoked = true' write of the operation has
\* succeeded on the item under h.
Landed(l, table, h) ==
    [l EXCEPT !.landed = @ + 1,
              !.flipped = IF h \in DOMAIN table /\ ~table[h].revoked THEN @ + 1 ELSE @]

Finish(r, l, response) ==
    /\ pc' = [pc EXCEPT ![r] = "done"]
    /\ resp' = [resp EXCEPT ![r] = response]
    /\ loc' = [loc EXCEPT ![r] = Settled(l)]

Started(r) == conc' = [conc EXCEPT ![r] = {q \in Slots : InFlight(q)}]

\* The synchronous tail of login after revokeAllUserTokens has resolved:
\* both tokens are signed and createRefreshToken builds its item, all at the
\* current clock; the PutCommand is then awaited.
LoginIssued(l) ==
    LET accessToken == generateAccessToken(l.user, ACCESS_TOKEN_SECRET, ACCESS_TOKEN_EXPIRY, now)
        refreshToken == generateRefreshToken(l.user, REFRESH_TOKEN_SECRET, REFRESH_TOKEN_EXPIRY, now)
    IN [l EXCEPT !.accessToken = accessToken, !.refreshToken = refreshToken,
                 !.item = newToken(nextId, l.user.id, refreshToken, now), !.createdId = nextId]

\* ------------------------------------------ POST /auth/login and the handler
\* getUserByEmail reads only the users table, which no request in flight
\* writes, so the read and the password comparison that follows it are taken
\* in the step that starts the request.
LoginStart(r, entry, email, password) ==
    /\ CanStart(r)
    /\ Started(r)
    /\ LET user == users[email]
           cred == IF password = Missing THEN "missing"
                   ELSE IF user = None THEN "nouser"
                   ELSE IF password = plain[email] THEN "correct" ELSE "wrong"
           l == [NoLoc EXCEPT !.entry = entry, !.cred = cred]
       IN IF password = Missing
          THEN Finish(r, l, ValidationFailed(entry))
          ELSE IF user = None
          THEN Finish(r, l, UserNotFound(entry))
          ELSE IF ~passwordMatches(entry, password, user)
          THEN Finish(r, l, PasswordMismatch(entry))
          ELSE /\ pc' = [pc EXCEPT ![r] = "revokeAllUserTokens"]
               /\ loc' = [loc EXCEPT ![r] = [l EXCEPT !.user = user]]
               /\ UNCHANGED resp
    /\ UNCHANGED <<now, users, plain, store, nextId, fails, pend>>

LoginGetUserFail(r, entry) ==
    /\ CanStart(r)
    /\ CanFail
    /\ fails' = fails + 1
    /\ Started(r)
    /\ Finish(r, [NoLoc EXCEPT !.entry = entry, !.failure = Failure("getUserByEmail", "raised")],
              ServerError(entry, "StoreError"))
    /\ UNCHANGED <<now, users, plain, store, nextId, pend>>

\* revokeAllUserTokens: the QueryCommand, then one UpdateCommand per item
\* that is not revoked, all sent at once.
LoginQuery(r) ==
    /\ pc[r] = "revokeAllUserTokens"
    /\ LET tokens == QueryByUser(store, loc[r].user.id)
           targets == revokeAllTargets(store, loc[r].user.id)
           l == [loc[r] EXCEPT !.tokens = tokens]
       IN
       /\ pend' = [pend EXCEPT ![r] = targets]
       /\ IF targets = {}
          THEN /\ pc' = [pc EXCEPT ![r] = "createRefreshToken"]
               /\ loc' = [loc EXCEPT ![r] = LoginIssued([l EXCEPT !.opResult = Returned(Cardinality(tokens))])]
               /\ nextId' = nextId + 1
          ELSE /\ pc' = [pc EXCEPT ![r] = "revoking"]
               /\ loc' = [loc EXCEPT ![r] = l]
               /\ UNCHANGED nextId
    /\ UNCHANGED <<now, users, plain, store, fails, resp, conc>>

LoginQueryFail(r) ==
    /\ pc[r] = "revokeAllUserTokens"
    /\ CanFail
    /\ fails' = fails + 1
    /\ Finish(r, [loc[r] EXCEPT !.opResult = Threw("StoreError"),
                                 !.failure = Failure("revokeAllUserTokens", "raised")],
              ServerError(loc[r].entry, "StoreError"))
    /\ UNCHANGED <<now, users, plain, store, nextId, pend, conc>>

\* One of the revoke writes lands.  Promise.all resolves with the last one.
LoginRevokeUpdate(r, h) ==
    /\ h \in pend[r]
    /\ loc[r].entry \in {"express", "lambda"}
    /\ store' = UpdateRevoked(store, h)
    /\ pend' = [pend EXCEPT ![r] = @ \ {h}]
    /\ IF pc[r] = "revoking"
       THEN LET l == Landed(loc[r], store, h) IN
            IF pend[r] = {h}
            THEN /\ pc' = [pc EXCEPT ![r] = "createRefreshToken"]
                 /\ loc' = [loc EXCEPT ![r] =
                                LoginIssued([l EXCEPT !.opResult = Returned(Cardinality(l.tokens))])]
                 /\ nextId' = nextId + 1
            ELSE /\ loc' = [loc EXCEPT ![r] = l]
                 /\ UNCHANGED <<pc, nextId>>
       ELSE UNCHANGED <<pc, loc, nextId>>
    /\ UNCHANGED <<now, users, plain, fails, resp, conc>>

\* One of the revoke writes fails.  Promise.all rejects at the first failure
\* and the request answers 500 while the other writes are still on their way.
LoginRevokeUpdateFail(r, h) ==
    /\ h \in pend[r]
    /\ loc[r].entry \in {"express", "lambda"}
    /\ CanFail
    /\ fails' = fails + 1
    /\ pend' = [pend EXCEPT ![r] = @ \ {h}]
    /\ IF pc[r] = "revoking"
       THEN Finish(r, [loc[r] EXCEPT !.opResult = Threw("StoreError"),
                                     !.failure = Failure("revokeAllUserTokens", "raised")],
                   ServerError(loc[r].entry, "StoreError"))
       ELSE UNCHANGED <<pc, resp, loc>>
    /\ UNCHANGED <<now, users, plain, store, nextId, conc>>

LoginPut(r) ==
    /\ pc[r] = "createRefreshToken"
    /\ loc[r].entry \in {"express", "lambda"}
    /\ LET l == loc[r] IN
       /\ store' = PutItem(store, l.item)
       /\ Finish(r, l, LoginOk(l.entry, l.user, l.accessToken, l.refreshToken))
    /\ UNCHANGED <<now, users, plain, nextId, fails, pend, conc>>

LoginPutFail(r) ==
    /\ pc[r] = "createRefreshToken"
    /\ loc[r].entry \in {"express", "lambda"}
    /\ CanFail
    /\ fails' = fails + 1
    /\ Finish(r, [loc[r] EXCEPT !.failure = Failure("createRefreshToken", "raised")],
              ServerError(loc[r].entry, "StoreError"))
    /\ UNCHANGED <<now, users, plain, store, nextId, pend, conc>>

\* -------------------------------------------------------- POST /auth/refresh
NoCookie == None
RefreshInputs == Delivered \cup {ForgedToken, UnclassifiedToken, NoCookie}

\* The state of the item under the presented token when it is read.
ItemState(table, token, t) ==
    LET h == sha256(token) IN
    IF h \notin DOMAIN table THEN "absent"
    ELSE IF table[h].revoked THEN "revoked"
    ELSE IF table[h].expires_at < t THEN "expired"
    ELSE "active"

Verdict(result) ==
    IF ~result.valid THEN "invalid" ELSE IF Has(result, "payload") THEN "valid" ELSE "expired"

\* The cookie is read and verifyToken runs before the first await.
RefreshStart(r, oldRefreshToken) ==
    /\ CanStart(r)
    /\ Started(r)
    /\ LET l == [NoLoc EXCEPT !.entry = "refresh", !.token = oldRefreshToken] IN
       IF oldRefreshToken = NoCookie
       THEN Finish(r, l, RefreshTokenNotFound)
       ELSE LET result == verifyToken(oldRefreshToken, REFRESH_TOKEN_SECRET, now)
                l2 == [l EXCEPT !.result = result, !.verified = Verdict(result)]
            IN IF result = None
               THEN Finish(r, l, InvalidRefreshToken)
               ELSE IF ~result.valid
               THEN Finish(r, l2, InvalidOrExpired(result))
               ELSE /\ pc' = [pc EXCEPT ![r] = "getRefreshToken"]
                    /\ loc' = [loc EXCEPT ![r] = l2]
                    /\ UNCHANGED resp
    /\ UNCHANGED <<now, users, plain, store, nextId, fails, pend>>

RefreshGet(r) ==
    /\ pc[r] = "getRefreshToken"
    /\ LET storedToken == getRefreshToken(store, loc[r].token)
           l == [loc[r] EXCEPT !.seen = ItemState(store, loc[r].token, now),
                               !.got = IF storedToken = None THEN "null" ELSE "item",
                               !.owner = IF storedToken = None THEN 0 ELSE storedToken.user_id]
       IN IF storedToken = None
          THEN Finish(r, l, NotFoundOrRevoked)
          ELSE IF storedToken.expires_at < now
          THEN Finish(r, l, RefreshTokenExpired)
          ELSE /\ pc' = [pc EXCEPT ![r] = "revokeRefreshToken"]
               /\ loc' = [loc EXCEPT ![r] = l]
               /\ UNCHANGED resp
    /\ UNCHANGED <<now, users, plain, store, nextId, fails, pend, conc>>

RefreshGetFail(r) ==
    /\ pc[r] = "getRefreshToken"
    /\ CanFail
    /\ fails' = fails + 1
    /\ Finish(r, [loc[r] EXCEPT !.failure = Failure("getRefreshToken", "raised")],
              ServerError("express", "StoreError"))
    /\ UNCHANGED <<now, users, plain, store, nextId, pend, conc>>

\* What follows `await revokeRefreshToken(oldRefreshToken)`, whose result the
\* route does not read: payload.sub is read (a TypeError when verifyToken
\* returned no payload), both tokens are signed and createRefreshToken
\* builds its item.
RefreshAfterRevoke(r, l) ==
    IF ~Has(l.result, "payload")
    THEN Finish(r, l, ServerError("express", "TypeError")) /\ UNCHANGED nextId
    ELSE LET subject == [id |-> l.result.payload.sub, email |-> l.result.payload.email]
             accessToken == generateAccessToken(subject, ACCESS_TOKEN_SECRET, ACCESS_TOKEN_EXPIRY, now)
             newRefreshToken == generateRefreshToken(subject, REFRESH_TOKEN_SECRET, REFRESH_TOKEN_EXPIRY, now)
         IN /\ pc' = [pc EXCEPT ![r] = "createRefreshToken"]
            /\ loc' = [loc EXCEPT ![r] = [l EXCEPT !.accessToken = accessToken,
                                                   !.refreshToken = newRefreshToken,
                                                   !.item = newToken(nextId, subject.id, newRefreshToken, now),
                                                   !.createdId = nextId]]
            /\ nextId' = nextId + 1
            /\ UNCHANGED resp

\* revokeRefreshToken: the UpdateCommand succeeds (returns true) ...
RefreshRevoke(r) ==
    /\ pc[r] = "revokeRefreshToken"
    /\ store' = UpdateRevoked(store, sha256(loc[r].token))
    /\ RefreshAfterRevoke(r, [Landed(loc[r], store, sha256(loc[r].token)) EXCEPT !.revokeResult = "true"])
    /\ UNCHANGED <<now, users, plain, fails, pend, conc>>

\* ... or fails: the catch returns false.
RefreshRevokeFail(r) ==
    /\ pc[r] = "revokeRefreshToken"
    /\ CanFail
    /\ fails' = fails + 1
    /\ RefreshAfterRevoke(r, [loc[r] EXCEPT !.revokeResult = "false",
                                            !.failure = Failure("revokeRefreshToken", "returned")])
    /\ UNCHANGED <<now, users, plain, store, pend, conc>>

RefreshPut(r) ==
    /\ pc[r] = "createRefreshToken"
    /\ loc[r].entry = "refresh"
    /\ LET l == loc[r] IN
       /\ store' = PutItem(store, l.item)
       /\ Finish(r, [l EXCEPT !.oldRevokedAtResponse =
                                 sha256(l.token) \in DOMAIN store' /\ store'[sha256(l.token)].revoked],
                 RefreshOk(l.accessToken, l.refreshToken))
    /\ UNCHANGED <<now, users, plain, nextId, fails, pend, conc>>

RefreshPutFail(r) ==
    /\ pc[r] = "createRefreshToken"
    /\ loc[r].entry = "refresh"
    /\ CanFail
    /\ fails' = fails + 1
    /\ Finish(r, [loc[r] EXCEPT !.failure = Failure("createRefreshToken", "raised")],
              ServerError("express", "StoreError"))
    /\ UNCHANGED <<now, users, plain, store, nextId, pend, conc>>

\* ----------------------------------------------------------- limitUserTokens
isActive(item, t) == ~item.revoked /\ Has(item, "expires_at") /\ ~(item.expires_at < t)

\* QueryCommand on user_id-index with FilterExpression 'revoked = :revoked'.
QueryNotRevoked(table, userId) ==
    {h \in QueryByUser(table, userId) : table[h].revoked = FALSE}

\* tokens.sort((a, b) => new Date(b.created_at) - new Date(a.created_at))
RECURSIVE sortNewestFirst(_, _)
sortNewestFirst(table, S) ==
    IF S = {} THEN <<>>
    ELSE LET newest == CHOOSE h \in S : \A k \in S : table[k].created_at <= table[h].created_at
         IN <<newest>> \o sortNewestFirst(table, S \ {newest})

\* Array.prototype.slice(start): a negative start counts from the end of the
\* array, and is taken as 0 when it reaches before the beginning.
slice(seq, start) ==
    LET from == IF start >= 0 THEN start
                ELSE IF Len(seq) + start < 0 THEN 0 ELSE Len(seq) + start
    IN SubSeq(seq, from + 1, Len(seq))
Range(seq) == {seq[i] : i \in DOMAIN seq}

limitTargets_KeepsMaxTokens(table, userId, maxTokens) ==
    LET tokens == sortNewestFirst(table, QueryNotRevoked(table, userId)) IN
    IF Len(tokens) >= maxTokens THEN Range(slice(tokens, maxTokens)) ELSE {}

\* tokensToRevoke, as the set of its keys.
limitTargets(table, userId, maxTokens) ==
    LET tokens == sortNewestFirst(table, QueryNotRevoked(table, userId)) IN
    IF Len(tokens) >= maxTokens THEN Range(slice(tokens, maxTokens - 1)) ELSE {}

\* The values of maxTokens the operation is called with.
LimitInputs == 0..MaxLimit

\* limitUserTokens(userId, maxTokens) is called and its QueryCommand is
\* answered; the sort, the slice and the sending of the revoke writes follow
\* in the same step.
LimitQuery(r, userId, maxTokens) ==
    /\ CanStart(r)
    /\ Started(r)
    /\ LET tokensToRevoke == limitTargets(store, userId, maxTokens)
           l == [NoLoc EXCEPT !.entry = "limit", !.user = [id |-> userId], !.maxTokens = maxTokens,
                              !.tokens = tokensToRevoke,
                              !.active = {h \in QueryByUser(store, userId) : isActive(store[h], now)}]
       IN /\ pend' = [pend EXCEPT ![r] = tokensToRevoke]
          /\ IF tokensToRevoke = {}
             THEN Finish(r, [l EXCEPT !.opResult = Returned(0)], NoResponse)
             ELSE /\ pc' = [pc EXCEPT ![r] = "limiting"]
                  /\ loc' = [loc EXCEPT ![r] = l]
                  /\ UNCHANGED resp
    /\ UNCHANGED <<now, users, plain, store, nextId, fails>>

LimitQueryFail(r, userId, maxTokens) ==
    /\ CanStart(r)
    /\ CanFail
    /\ fails' = fails + 1
    /\ Started(r)
    /\ Finish(r, [NoLoc EXCEPT !.entry = "limit", !.user = [id |-> userId], !.maxTokens = maxTokens,
                               !.opResult = Threw("StoreError"),
                               !.failure = Failure("limitUserTokens", "raised")], NoResponse)
    /\ UNCHANGED <<now, users, plain, store, nextId, pend>>

\* One of the revoke writes lands; Promise.all resolves with the last one and
\* the operation returns tokensToRevoke.length.
LimitRevokeUpdate(r, h) ==
    /\ h \in pend[r]
    /\ loc[r].entry = "limit"
    /\ store' = UpdateRevoked(store, h)
    /\ pend' = [pend EXCEPT ![r] = @ \ {h}]
    /\ IF pc[r] = "limiting"
       THEN LET l == Landed(loc[r], store, h) IN
            IF pend[r] = {h}
            THEN Finish(r, [l EXCEPT !.opResult = Returned(Cardinality(l.tokens))], NoResponse)
            ELSE /\ loc' = [loc EXCEPT ![r] = l]
                 /\ UNCHANGED <<pc, resp>>
       ELSE UNCHANGED <<pc, loc, resp>>
    /\ UNCHANGED <<now, users, plain, nextId, fails, conc>>

LimitRevokeUpdateFail(r, h) ==
    /\ h \in pend[r]
    /\ loc[r].entry = "limit"
    /\ CanFail
    /\ fails' = fails + 1
    /\ pend' = [pend EXCEPT ![r] = @ \ {h}]
    /\ IF pc[r] = "limiting"
       THEN Finish(r, [loc[r] EXCEPT !.opResult = Threw("StoreError"),
                                     !.failure = Failure("limitUserTokens", "raised")], NoResponse)
       ELSE UNCHANGED <<pc, resp, loc>>
    /\ UNCHANGED <<now, users, plain, store, nextId, conc>>

\* ------------------------------------------- revokeAllUserTokens, on its own
\* revokeAllUserTokens(userId) is called outside a login and its QueryCommand
\* is answered; the filter and the sending of the revoke writes follow in the
\* same step.
RevokeAllQuery(r, userId) ==
    /\ CanStart(r)
    /\ Started(r)
    /\ LET tokens == QueryByUser(store, userId)
           targets == revokeAllTargets(store, userId)
           l == [NoLoc EXCEPT !.entry = "revokeAll", !.user = [id |-> userId], !.tokens = tokens]
       IN /\ pend' = [pend EXCEPT ![r] = targets]
          /\ IF targets = {}
             THEN Finish(r, [l EXCEPT !.opResult = Returned(Cardinality(tokens))], NoResponse)
             ELSE /\ pc' = [pc EXCEPT ![r] = "revokingAll"]
                  /\ loc' = [loc EXCEPT ![r] = l]
                  /\ UNCHANGED resp
    /\ UNCHANGED <<now, users, plain, store, nextId, fails>>

\* One of the revoke writes lands; Promise.all resolves with the last one and
\* the operation returns tokens.length.
RevokeAllUpdate(r, h) ==
    /\ h \in pend[r]
    /\ loc[r].entry = "revokeAll"
    /\ store' = UpdateRevoked(store, h)
    /\ pend' = [pend EXCEPT ![r] = @ \ {h}]
    /\ LET l == Landed(loc[r], store, h) IN
       IF pend[r] = {h}
       THEN Finish(r, [l EXCEPT !.opResult = Returned(Cardinality(l.tokens))], NoResponse)
       ELSE /\ loc' = [loc EXCEPT ![r] = l]
            /\ UNCHANGED <<pc, resp>>
    /\ UNCHANGED <<now, users, plain, nextId, fails, conc>>

\* -------------------------------------------------------- cleanExpiredTokens
DeleteItem(table, h) == [k \in DOMAIN table \ {h} |-> table[k]]

ScanExpired_NoFilter(table, t) == DOMAIN table

\* ScanCommand with FilterExpression 'expires_at < :now': an item without
\* the attribute does not match.
ScanExpired(table, t) ==
    {h \in DOMAIN table : Has(table[h], "expires_at") /\ table[h].expires_at < t}

\* `const now = new Date()`, and the first ScanCommand is sent.
SweepStart(r) ==
    /\ CanStart(r)
    /\ Started(r)
    /\ pc' = [pc EXCEPT ![r] = "scan"]
    /\ loc' = [loc EXCEPT ![r] = [NoLoc EXCEPT !.entry = "sweep", !.sweepNow = now]]
    /\ UNCHANGED <<now, users, plain, store, nextId, fails, resp, pend>>

\* A scan page is answered with a LastEvaluatedKey: it holds some of the
\* matching items the scan has not returned yet; one DeleteCommand per item is
\* sent, and the loop will scan again when they have all landed.
SweepScanPage(r, expiredTokens) ==
    /\ pc[r] = "scan"
    /\ expiredTokens # {}
    /\ expiredTokens \subseteq ScanExpired(store, loc[r].sweepNow) \ loc[r].scanned
    /\ pend' = [pend EXCEPT ![r] = expiredTokens]
    /\ pc' = [pc EXCEPT ![r] = "deleting"]
    /\ loc' = [loc EXCEPT ![r] = [@ EXCEPT !.tokens = @ \cup expiredTokens,
                                           !.scanned = @ \cup expiredTokens,
                                           !.lastEvaluatedKey = TRUE,
                                           !.pages = @ + 1]]
    /\ UNCHANGED <<now, users, plain, store, nextId, fails, resp, conc>>

SweepScan_LoopsAgain(r) ==
    /\ pc[r] = "scan"
    /\ LET expiredTokens == ScanExpired(store, loc[r].sweepNow) \ loc[r].scanned
           l == [loc[r] EXCEPT !.tokens = @ \cup expiredTokens, !.lastEvaluatedKey = TRUE,
                               !.pages = IF expiredTokens = {} THEN @ ELSE @ + 1]
       IN /\ pend' = [pend EXCEPT ![r] = expiredTokens]
          /\ pc' = [pc EXCEPT ![r] = IF expiredTokens = {} THEN "scan" ELSE "deleting"]
          /\ loc' = [loc EXCEPT ![r] = IF expiredTokens = {} THEN loc[r] ELSE l]
          /\ UNCHANGED resp
    /\ UNCHANGED <<now, users, plain, store, nextId, fails, conc>>

\* The last scan page is answered, without a LastEvaluatedKey: it holds the
\* matching items the scan has not returned yet, and one DeleteCommand per
\* item is sent.
SweepScan(r) ==
    /\ pc[r] = "scan"
    /\ LET expiredTokens == ScanExpired(store, loc[r].sweepNow) \ loc[r].scanned
           l == [loc[r] EXCEPT !.tokens = @ \cup expiredTokens, !.lastEvaluatedKey = FALSE,
                               !.pages = @ + 1]
       IN /\ pend' = [pend EXCEPT ![r] = expiredTokens]
          /\ IF expiredTokens = {}
             THEN Finish(r, [l EXCEPT !.opResult = Returned(Cardinality(l.tokens))], NoResponse)
             ELSE /\ pc' = [pc EXCEPT ![r] = "deleting"]
                  /\ loc' = [loc EXCEPT ![r] = l]
                  /\ UNCHANGED resp
    /\ UNCHANGED <<now, users, plain, store, nextId, fails, conc>>

SweepScanFail(r) ==
    /\ pc[r] = "scan"
    /\ CanFail
    /\ fails' = fails + 1
    /\ Finish(r, [loc[r] EXCEPT !.opResult = Threw("StoreError"),
                                !.failure = Failure("cleanExpiredTokens", "raised")], NoResponse)
    /\ UNCHANGED <<now, users, plain, store, nextId, pend, conc>>

\* One DeleteCommand lands: the item under the key is removed, whatever it
\* is by now.  With the last one of a page the loop scans again when the page
\* carried a LastEvaluatedKey, and the operation returns deletedCount when it
\* did not.
SweepDelete(r, h) ==
    /\ h \in pend[r]
    /\ loc[r].entry = "sweep"
    /\ store' = DeleteItem(store, h)
    /\ pend' = [pend EXCEPT ![r] = @ \ {h}]
    /\ IF pc[r] = "deleting"
       THEN LET l == [loc[r] EXCEPT !.landed = @ + 1] IN
            IF pend[r] = {h} /\ l.lastEvaluatedKey
            THEN /\ pc' = [pc EXCEPT ![r] = "scan"]
                 /\ loc' = [loc EXCEPT ![r] = l]
                 /\ UNCHANGED resp
            ELSE IF pend[r] = {h}
            THEN Finish(r, [l EXCEPT !.opResult = Returned(Cardinality(l.tokens))], NoResponse)
            ELSE /\ loc' = [loc EXCEPT ![r] = l]
                 /\ UNCHANGED <<pc, resp>>
       ELSE UNCHANGED <<pc, loc, resp>>
    /\ UNCHANGED <<now, users, plain, nextId, fails, conc>>

SweepDeleteFail(r, h) ==
    /\ h \in pend[r]
    /\ loc[r].entry = "sweep"
    /\ CanFail
    /\ fails' = fails + 1
    /\ pend' = [pend EXCEPT ![r] = @ \ {h}]
    /\ IF pc[r] = "deleting"
       THEN Finish(r, [loc[r] EXCEPT !.opResult = Threw("StoreError"),
                                     !.failure = Failure("cleanExpiredTokens", "raised")], NoResponse)
       ELSE UNCHANGED <<pc, resp, loc>>
    /\ UNCHANGED <<now, users, plain, store, nextId, conc>>

\* ------------------------------------------------- GET /api/protected-test
\* constants.ACCESS_TOKEN_SECRET of utils/constants.mjs: the secret the access
\* tokens are signed with.
constants_ACCESS_TOKEN_SECRET == ACCESS_TOKEN_SECRET

NoHeader == None
Bearer(token) == [bearer |-> token]
AccessTokenRequired ==
    Response(401, [errorName |-> "AccessTokenRequired", errorMessage |-> "Access token is required"])
AccessGranted(user) ==
    Response(200, [message |-> "Valid token! Access granted.", user |-> extractUserInfo(user)])
ProtectedUserNotFound == Response(404, [error |-> "User not found"])
\* What Express answers when a middleware throws.
UncaughtError(errName) == Response(500, [error |-> errName])

authenticateRequest_RefreshSecret(authHeader, t) ==
    IF ~Has(authHeader, "bearer") THEN [ended |-> AccessTokenRequired]
    ELSE LET result == verifyToken(authHeader.bearer, REFRESH_TOKEN_SECRET, t) IN
         IF result = None THEN Threw("TypeError")
         ELSE IF result.valid /\ Has(result, "error") THEN [ended |-> Response(401, result.error)]
         ELSE IF ~result.valid THEN [ended |-> Response(403, result.error)]
         ELSE [next |-> TRUE, user |-> result.payload]

\* The middleware ends the request, calls next() with req.user set, or
\* throws: `result.valid` is read before `!result` is tested.
authenticateRequest(authHeader, t) ==
    IF ~Has(authHeader, "bearer") THEN [ended |-> AccessTokenRequired]
    ELSE LET result == verifyToken(authHeader.bearer, constants_ACCESS_TOKEN_SECRET, t) IN
         IF result = None THEN Threw("TypeError")
         ELSE IF result.valid /\ Has(result, "error") THEN [ended |-> Response(401, result.error)]
         ELSE IF ~result.valid THEN [ended |-> Response(403, result.error)]
         ELSE [next |-> TRUE, user |-> result.payload]

HeaderInputs == {NoHeader} \cup {Bearer(t) : t \in Delivered \cup {ForgedToken, UnclassifiedToken}}

\* cookieToAuthHeader, authenticateRequest and the route's handler; the
\* handler's getUserByEmail reads only the users table and is taken in the
\* same step.
ProtectedTest(r, authHeader) ==
    /\ CanStart(r)
    /\ Started(r)
    /\ LET outcome == authenticateRequest(authHeader, now)
           result == IF Has(authHeader, "bearer")
                     THEN verifyToken(authHeader.bearer, constants_ACCESS_TOKEN_SECRET, now) ELSE None
           l == [NoLoc EXCEPT !.entry = "protected",
                              !.token = IF Has(authHeader, "bearer") THEN authHeader.bearer ELSE None,
                              !.verified = IF ~Has(authHeader, "bearer") THEN "none"
                                           ELSE IF result = None THEN "null" ELSE Verdict(result),
                              !.next = Has(outcome, "next")]
       IN IF Has(outcome, "ended") THEN Finish(r, l, outcome.ended)
          ELSE IF Has(outcome, "threw") THEN Finish(r, l, UncaughtError(outcome.threw))
          ELSE LET user == users[outcome.user.email] IN
               IF user = None THEN Finish(r, l, ProtectedUserNotFound)
               ELSE Finish(r, l, AccessGranted(user))
    /\ UNCHANGED <<now, users, plain, store, nextId, fails, pend>>

Next ==
    \/ Tick
    \/ \E e \in Registrable, p \in Passwords, n \in Names : Register(e, Text(p), n)
    \/ \E r \in Slots, entry \in {"express", "lambda"}, e \in Emails, p \in PasswordInputs : LoginStart(r, entry, e, p)
    \/ \E r \in Slots, entry \in {"express", "lambda"} : LoginGetUserFail(r, entry)
    \/ \E r \in Slots : LoginQuery(r)
    \/ \E r \in Slots : LoginQueryFail(r)
    \/ \E r \in Slots : \E h \in pend[r] : LoginRevokeUpdate(r, h)
    \/ \E r \in Slots : \E h \in pend[r] : LoginRevokeUpdateFail(r, h)
    \/ \E r \in Slots : LoginPut(r)
    \/ \E r \in Slots : LoginPutFail(r)
    \/ \E r \in Slots : \E t \in RefreshInputs : RefreshStart(r, t)
    \/ \E r \in Slots : RefreshGet(r)
    \/ \E r \in Slots : RefreshGetFail(r)
    \/ \E r \in Slots : RefreshRevoke(r)
    \/ \E r \in Slots : RefreshRevokeFail(r)
    \/ \E r \in Slots : RefreshPut(r)
    \/ \E r \in Slots : RefreshPutFail(r)

Spec == Init /\ [][Next]_vars

\* The same program with one more request and a store whose calls all
\* succeed: logins through the Express route with the registered
\* credentials, and refreshes with the tokens the clients hold.
ReliableReqs == 1..(NumReqs + 1)

InitReliable ==
    /\ now = 0
    /\ users = [e \in Emails |-> None]
    /\ plain = [e \in Emails |-> Missing]
    /\ store = [h \in {} |-> None]
    /\ nextId = 1
    /\ fails = 0
    /\ pc = [r \in ReliableReqs |-> "idle"]
    /\ loc = [r \in ReliableReqs |-> NoLoc]
    /\ resp = [r \in ReliableReqs |-> NoResponse]
    /\ pend = [r \in ReliableReqs |-> {}]
    /\ conc = [r \in ReliableReqs |-> {}]

NextReliable ==
    \/ Tick
    \/ \E e \in Registrable, p \in Passwords, n \in Names : Register(e, Text(p), n)
    \/ \E r \in Slots, e \in Registrable, p \in Passwords : LoginStart(r, "express", e, Text(p))
    \/ \E r \in Slots : LoginQuery(r)
    \/ \E r \in Slots : \E h \in pend[r] : LoginRevokeUpdate(r, h)
    \/ \E r \in Slots : LoginPut(r)
    \/ \E r \in Slots : \E t \in Delivered : RefreshStart(r, t)
    \/ \E r \in Slots : RefreshGet(r)
    \/ \E r \in Slots : RefreshRevoke(r)
    \/ \E r \in Slots : RefreshPut(r)

SpecReliable == InitReliable /\ [][NextReliable]_vars

\* The routes together with the repository's housekeeping operations and the
\* protected route, over a store whose calls all succeed: logins through the
\* Express route with the registered credentials, refreshes and protected
\* requests with the tokens the clients hold, limitUserTokens and
\* cleanExpiredTokens called at any moment.
NextHousekeeping ==
    \/ Tick
    \/ \E e \in Registrable, p \in Passwords, n \in Names : Register(e, Text(p), n)
    \/ \E r \in Slots, e \in Registrable, p \in Passwords : LoginStart(r, "express", e, Text(p))
    \/ \E r \in Slots : LoginQuery(r)
    \/ \E r \in Slots : \E h \in pend[r] : LoginRevokeUpdate(r, h)
    \/ \E r \in Slots : LoginPut(r)
    \/ \E r \in Slots : \E t \in Delivered : RefreshStart(r, t)
    \/ \E r \in Slots : RefreshGet(r)
    \/ \E r \in Slots : RefreshRevoke(r)
    \/ \E r \in Slots : RefreshPut(r)
    \/ \E r \in Slots, e \in Registrable, m \in LimitInputs : users[e] # None /\ LimitQuery(r, users[e].id, m)
    \/ \E r \in Slots : \E h \in pend[r] : LimitRevokeUpdate(r, h)
    \/ \E r \in Slots : SweepStart(r)
    \/ \E r \in Slots : SweepScan(r)
    \/ \E r \in Slots : \E h \in pend[r] : SweepDelete(r, h)
    \/ \E r \in Slots : \E a \in HeaderInputs : ProtectedTest(r, a)

\* The same, the store calls of the housekeeping operations failing too.
NextOps ==
    \/ NextHousekeeping
    \/ \E r \in Slots, e \in Registrable, m \in LimitInputs : users[e] # None /\ LimitQueryFail(r, users[e].id, m)
    \/ \E r \in Slots : \E h \in pend[r] : LimitRevokeUpdateFail(r, h)
    \/ \E r \in Slots : SweepScanFail(r)
    \/ \E r \in Slots : \E h \in pend[r] : SweepDeleteFail(r, h)

SpecOps == Init /\ [][NextOps]_vars

\* The housekeeping system with one more request.
SpecSweep == InitReliable /\ [][NextHousekeeping]_vars

\* The routes with every email registrable, so that sessions of two users
\* live in the table side by side, over a store whose calls all succeed:
\* logins through the Express route, refreshes with the tokens the clients
\* hold.
NextOwners ==
    \/ Tick
    \/ \E e \in Emails, p \in Passwords, n \in Names : Register(e, Text(p), n)
    \/ \E r \in Slots, e \in Emails, p \in Passwords : LoginStart(r, "express", e, Text(p))
    \/ \E r \in Slots : LoginQuery(r)
    \/ \E r \in Slots : \E h \in pend[r] : LoginRevokeUpdate(r, h)
    \/ \E r \in Slots : LoginPut(r)
    \/ \E r \in Slots : \E t \in Delivered : RefreshStart(r, t)
    \/ \E r \in Slots : RefreshGet(r)
    \/ \E r \in Slots : RefreshRevoke(r)
    \/ \E r \in Slots : RefreshPut(r)

SpecOwners == Init /\ [][NextOwners]_vars

\* Logins through the Express route with the registered credentials, and
\* limitUserTokens and revokeAllUserTokens called one after another, over a
\* store whose calls all succeed.
NextRerun ==
    \/ Tick
    \/ \E e \in Registrable, p \in Passwords, n \in Names : Register(e, Text(p), n)
    \/ \E r \in Slots, e \in Registrable, p \in Passwords : LoginStart(r, "express", e, Text(p))
    \/ \E r \in Slots : LoginQuery(r)
    \/ \E r \in Slots : \E h \in pend[r] : LoginRevokeUpdate(r, h)
    \/ \E r \in Slots : LoginPut(r)
    \/ \E r \in Slots, e \in Registrable, m \in LimitInputs : users[e] # None /\ LimitQuery(r, users[e].id, m)
    \/ \E r \in Slots : \E h \in pend[r] : LimitRevokeUpdate(r, h)
    \/ \E r \in Slots, e \in Registrable : users[e] # None /\ RevokeAllQuery(r, users[e].id)
    \/ \E r \in Slots : \E h \in pend[r] : RevokeAllUpdate(r, h)

SpecRerun == InitReliable /\ [][NextRerun]_vars

\* The routes and the Lambda handler over a store that may fail, together
\* with cleanExpiredTokens, where every store call that was sent is
\* eventually answered, with a result or with an error.
NextLive ==
    \/ Next
    \/ \E r \in Slots : SweepStart(r)
    \/ \E r \in Slots : \E P \in SUBSET DOMAIN store : SweepScanPage(r, P)
    \/ \E r \in Slots : SweepScan(r)
    \/ \E r \in Slots : SweepScanFail(r)
    \/ \E r \in Slots : \E h \in pend[r] : SweepDelete(r, h)
    \/ \E r \in Slots : \E h \in pend[r] : SweepDeleteFail(r, h)

\* A store call of request r is answered.
StoreAnswers(r) ==
    \/ LoginQuery(r) \/ LoginQueryFail(r)
    \/ \E h \in pend[r] : LoginRevokeUpdate(r, h) \/ LoginRevokeUpdateFail(r, h)
    \/ LoginPut(r) \/ LoginPutFail(r)
    \/ RefreshGet(r) \/ RefreshGetFail(r)
    \/ RefreshRevoke(r) \/ RefreshRevokeFail(r)
    \/ RefreshPut(r) \/ RefreshPutFail(r)
    \/ \E P \in SUBSET DOMAIN store : SweepScanPage(r, P)
    \/ SweepScan(r) \/ SweepScanFail(r)
    \/ \E h \in pend[r] : SweepDelete(r, h) \/ SweepDeleteFail(r, h)

SpecLive == Init /\ [][NextLive]_vars /\ \A r \in Reqs : WF_vars(StoreAnswers(r))

\* ================================================================= claims

Done(r) == pc[r] = "done"
IsRefresh(r) == loc[r].entry = "refresh"
IsLogin(r) == loc[r].entry \in {"express", "lambda"}
Status(r) == resp[r].status
\* The two requests overlapped: one was in flight when the other started.
Concurrent(r1, r2) == r1 \in conc[r2] \/ r2 \in conc[r1]
\* r2 started when r1 had already answered.
StartedAfter(r2, r1) == r1 < r2 /\ r1 \notin conc[r2]
Quiescent == \A r \in Slots : ~InFlight(r)
NoStoreFailure == fails = 0
ActiveOf(userId) ==
    {h \in QueryByUser(store, userId) : ~store[h].revoked /\ ~(store[h].expires_at < now)}
UserIds == {users[e].id : e \in {x \in Emails : users[x] # None}}

\* C1: of two concurrent POST /auth/refresh requests that present the same
\* raw refresh token, at most one responds 200 (no store call failing).
C1_NoDoubleSuccess ==
    \A r1, r2 \in Slots :
        (/\ r1 # r2 /\ IsRefresh(r1) /\ IsRefresh(r2)
         /\ loc[r1].token = loc[r2].token
         /\ Concurrent(r1, r2) /\ Done(r1) /\ Done(r2) /\ NoStoreFailure)
        => ~(Status(r1) = 200 /\ Status(r2) = 200)

\* C2: when a refresh presenting T has responded 200 the item of T is
\* revoked at that moment, and every refresh with T that starts afterwards
\* is refused (403; 500 when a store call of its own failed).
C2_RotationInvalidatesPredecessor ==
    \A r1 \in Slots :
        (IsRefresh(r1) /\ Done(r1) /\ Status(r1) = 200)
        => /\ loc[r1].oldRevokedAtResponse
           /\ \A r2 \in Slots :
                (IsRefresh(r2) /\ StartedAfter(r2, r1) /\ loc[r2].token = loc[r1].token /\ Done(r2))
                => Status(r2) \in {403, 500}

\* C3: revoked is monotonic: no step takes the item under a token_hash from
\* revoked = true to revoked = false.
C3_RevokedMonotonic ==
    [][\A h \in DOMAIN store : store[h].revoked => (h \in DOMAIN store' /\ store'[h].revoked)]_vars

\* C4: a refresh responds 200 only if the token verified as Valid and its
\* item was there, not revoked and not past expires_at when it was read; and
\* a token whose signed claims are expired is answered 403 (no store call
\* failing), whatever the item says.
C4_RefreshOnlyWhenValidAndExpiredRejected ==
    \A r \in Slots :
        (IsRefresh(r) /\ Done(r))
        => /\ Status(r) = 200 => (loc[r].verified = "valid" /\ loc[r].seen = "active")
           /\ (loc[r].verified = "expired" /\ NoStoreFailure) => Status(r) = 403

SoloLogin(r) ==
    /\ IsLogin(r) /\ Done(r) /\ Status(r) = 200
    /\ conc[r] = {}
    /\ \A q \in Slots : q > r => pc[q] = "idle"

C6_LoginRevokesAllPrior ==
    \A r \in Slots :
        SoloLogin(r)
        => LET mine == QueryByUser(store, loc[r].user.id) IN
           /\ \E h \in mine : store[h].id = loc[r].createdId
           /\ \A h \in mine : store[h].revoked <=> store[h].id # loc[r].createdId

C6_Witness ==
    \E r \in Slots :
        /\ SoloLogin(r)
        /\ \E h \in QueryByUser(store, loc[r].user.id) : store[h].revoked /\ store[h].id # loc[r].createdId

\* C7: once every request in flight has finished (no store call failing), a
\* user has at most one item that is not revoked and not expired.
C7_AtMostOneActivePerUser ==
    (Quiescent /\ NoStoreFailure) => \A u \in UserIds : Cardinality(ActiveOf(u)) <= 1

\* C8: a login with the email and the password a user was created with
\* responds 200 on either entry point (500 when a store call failed), and the
\* access token's sub is the stored user id.
C8_CorrectPasswordLogsIn ==
    \A r \in Slots :
        (IsLogin(r) /\ Done(r) /\ loc[r].cred = "correct")
        => \/ Status(r) = 500
           \/ /\ Status(r) = 200
              /\ resp[r].body.accessToken.sub = loc[r].user.id
              /\ \E e \in Emails : users[e] # None /\ users[e].id = loc[r].user.id

\* C9: a login with an email that has no user and a login with an existing
\* email and a password other than the one the user was created with get the
\* same status and body, 401 (no store call failing).
C9_FailuresIndistinguishable ==
    \A r1, r2 \in Slots :
        (/\ IsLogin(r1) /\ IsLogin(r2) /\ Done(r1) /\ Done(r2) /\ NoStoreFailure
         /\ loc[r1].cred = "nouser" /\ loc[r2].cred = "wrong")
        => /\ Status(r1) = 401 /\ Status(r2) = 401
           /\ resp[r1].body = resp[r2].body

\* C10: for a token that verified as valid and unexpired, the response of
\* POST /auth/refresh is the same, status and body, whether the item was
\* absent, revoked or past its expires_at when it was read.
C10_ItemStatesIndistinguishable ==
    \A r1, r2 \in Slots :
        (/\ IsRefresh(r1) /\ IsRefresh(r2) /\ Done(r1) /\ Done(r2)
         /\ loc[r1].verified = "valid" /\ loc[r2].verified = "valid"
         /\ loc[r1].seen \in {"absent", "revoked", "expired"}
         /\ loc[r2].seen \in {"absent", "revoked", "expired"})
        => (Status(r1) = Status(r2) /\ resp[r1].body = resp[r2].body)

\* The store operations of the refresh-token repository that must surface a
\* failure of their store call as a raised error.
LoudStoreOps ==
    {"createRefreshToken", "getRefreshToken", "revokeRefreshToken",
     "revokeAllUserTokens", "limitUserTokens", "cleanExpiredTokens"}
\* revokeRefreshToken(token) returns in this step to request r.
RevokeReturns(r) == pc[r] = "revokeRefreshToken" /\ pc'[r] # "revokeRefreshToken"
\* revokeAllUserTokens(userId) resolves in this step to request r.
RevokeAllResolves(r) == pc[r] \in {"revokeAllUserTokens", "revoking"} /\ pc'[r] = "createRefreshToken"
\* revokeAllUserTokens(userId) rejects in this step, one of its writes having failed.
RevokeAllRejectsOnWrite(r) == pc[r] = "revoking" /\ pc'[r] = "done"
\* Request r answers in this step.
Answers(r) == pc[r] # "done" /\ pc'[r] = "done"

\* C11: revokeRefreshToken(token) returns false, without raising, when the
\* item of the token is already revoked or there is none, and returns true
\* only when it took an existing item from not revoked to revoked.
C11_RevokeReportsFlip ==
    [][\A r \in Slots :
         RevokeReturns(r)
         => LET h == sha256(loc[r].token)
                flips == h \in DOMAIN store /\ ~store[h].revoked /\ store'[h].revoked
            IN /\ loc'[r].revokeResult \in {"true", "false"}
               /\ loc'[r].revokeResult = "true" => flips
               /\ (h \notin DOMAIN store \/ store[h].revoked) => loc'[r].revokeResult = "false"]_vars

\* C12: when revokeAllUserTokens(userId) resolves, the number it returns is
\* the number of items it took from not revoked to revoked, and every item
\* its query returned is revoked.
C12_RevokeAllCountsChanged ==
    [][\A r \in Slots :
         RevokeAllResolves(r)
         => /\ loc'[r].opResult = Returned(loc'[r].flipped)
            /\ \A h \in loc'[r].tokens : h \in DOMAIN store' /\ store'[h].revoked]_vars

\* C13: when a write of revokeAllUserTokens fails after others of its writes
\* have succeeded, the operation ends by reporting a count, the number of
\* items it revoked, to its caller.
C13_PartialFailureReportsCount ==
    [][\A r \in Slots :
         (RevokeAllRejectsOnWrite(r) /\ loc[r].landed >= 1)
         => /\ Has(loc'[r].opResult, "returned")
            /\ loc'[r].opResult.returned \in {loc[r].landed, loc[r].flipped}]_vars

\* C18: a POST /auth/refresh whose token is not signed with the refresh
\* secret (tampered, malformed) is answered 403 at once: it makes no store
\* call (no read, no revoke, no put) and gets no tokens.
FailsSignature(token) == Has(token, "key") /\ token.key # REFRESH_TOKEN_SECRET

C18_BadSignatureTouchesNothing ==
    \A r \in Slots :
        (IsRefresh(r) /\ FailsSignature(loc[r].token))
        => /\ Done(r) /\ Status(r) = 403 /\ resp[r].cookies = <<>>
           /\ loc[r].seen = "none" /\ loc[r].revokeResult = "none"
           /\ loc[r].createdId = 0 /\ loc[r].failure = None

C18_Witness ==
    \E r \in Slots : IsRefresh(r) /\ loc[r].token = ForgedToken /\ Done(r) /\ Status(r) = 403

\* C19: a failed store call of createRefreshToken, getRefreshToken,
\* revokeRefreshToken, revokeAllUserTokens, limitUserTokens or
\* cleanExpiredTokens reaches the caller of the operation as a raised error,
\* never as a return value.
C19_StoreFailuresRaise ==
    \A r \in Slots :
        (loc[r].failure # None /\ loc[r].failure.op \in LoudStoreOps)
        => loc[r].failure.surfaced = "raised"

\* C20: when Login or Refresh answers 200, the PutCommand of the refresh
\* token it delivers has succeeded: the item under the token's hash is the
\* one the request built, not revoked; and when createRefreshToken fails the
\* answer is 500 with no access or refresh token.
C20_WriteBeforeOk ==
    [][\A r \in Slots :
         (Answers(r) /\ loc'[r].entry \in {"express", "lambda", "refresh"})
         => /\ resp'[r].status = 200
               => LET h == sha256(resp'[r].cookies[2]) IN
                  /\ pc[r] = "createRefreshToken"
                  /\ h \in DOMAIN store' /\ ~store'[h].revoked
                  /\ store'[h].id = loc'[r].createdId
            /\ (loc'[r].failure # None /\ loc'[r].failure.op = "createRefreshToken")
               => (resp'[r].status = 500 /\ resp'[r].cookies = <<>>)]_vars

C20_Witness ==
    \E r \in Slots :
        /\ Done(r) /\ Status(r) = 200
        /\ sha256(resp[r].cookies[2]) \in DOMAIN store
        /\ store[sha256(resp[r].cookies[2])].id = loc[r].createdId

\* The operation of slot r ran alone: nothing was in flight when it started
\* and nothing has started since.
Solo(r) == Done(r) /\ conc[r] = {} /\ \A q \in Slots : q > r => pc[q] = "idle"
\* The n items of S with the newest created_at.
newestOf(table, S, n) ==
    {h \in S : Cardinality({k \in S : table[k].created_at > table[h].created_at}) < n}

\* C14: limitUserTokens(userId, maxTokens), maxTokens >= 1, for a user with k
\* active items (not revoked and not past expires_at): if k >= maxTokens it
\* leaves the maxTokens-1 newest active, revokes the other k-(maxTokens-1) and
\* returns that number; if k < maxTokens it revokes nothing and returns 0.
C14_LimitKeepsNewestActive ==
    \A r \in Slots :
        (loc[r].entry = "limit" /\ loc[r].maxTokens >= 1 /\ Solo(r) /\ NoStoreFailure)
        => LET A == loc[r].active
               m == loc[r].maxTokens
               kept == IF Cardinality(A) >= m THEN newestOf(store, A, m - 1) ELSE A
           IN /\ loc[r].opResult = Returned(Cardinality(A \ kept))
              /\ loc[r].flipped = Cardinality(A \ kept)
              /\ \A h \in A : store[h].revoked <=> h \notin kept

DeliveredAccess == {resp[q].cookies[1] : q \in {x \in Slots : resp[x].cookies # <<>>}}
DeliveredRefresh == {resp[q].cookies[2] : q \in {x \in Slots : resp[x].cookies # <<>>}}

C16_KindsNotInterchangeable ==
    \A r \in Slots :
        /\ (IsRefresh(r) /\ loc[r].token \in DeliveredAccess)
           => (Done(r) /\ Status(r) = 403 /\ resp[r].cookies = <<>> /\ loc[r].seen = "none")
        /\ (loc[r].entry = "protected" /\ loc[r].token \in DeliveredRefresh)
           => (Done(r) /\ ~loc[r].next /\ Status(r) \in {401, 403})

C16_Witness ==
    \E r1, r2 \in Slots :
        /\ IsRefresh(r1) /\ loc[r1].token \in DeliveredAccess /\ Done(r1)
        /\ loc[r2].entry = "protected" /\ loc[r2].token \in DeliveredRefresh /\ Done(r2)

\* C17: whatever verifyToken returns, authenticateRequest calls next() only
\* for a valid result with a payload, and ends the request with 401 or 403 in
\* every other case.
C17_OnlyValidPasses ==
    \A r \in Slots :
        (loc[r].entry = "protected" /\ Done(r))
        => /\ loc[r].next => loc[r].verified = "valid"
           /\ loc[r].verified # "valid" => (~loc[r].next /\ Status(r) \in {401, 403})

\* C23: a POST /auth/refresh that answers anything but 200 has revoked no
\* item: none of its writes took an item from not revoked to revoked.
C23_FailedRefreshChangesNothing ==
    \A r \in Slots :
        (IsRefresh(r) /\ Done(r) /\ Status(r) # 200) => loc[r].flipped = 0

\* C24: a login that answers 400 or 401 answers in the step that starts it,
\* before any call on the refresh-token table: the table is unchanged, no
\* revoke of the request has landed and no item was built for it.
C24_RejectedLoginWritesNothing ==
    [][\A r \in Slots :
         (Answers(r) /\ loc'[r].entry \in {"express", "lambda"} /\ resp'[r].status \in {400, 401})
         => /\ pc[r] = "idle"
            /\ store' = store
            /\ pend'[r] = {}
            /\ loc'[r].landed = 0
            /\ loc'[r].createdId = 0]_vars

\* A login with a wrong password for a registered user has answered 401 while
\* a session of that user, opened by an earlier login, is still not revoked.
C24_Witness ==
    \E r \in Slots :
        /\ IsLogin(r) /\ Done(r) /\ Status(r) = 401 /\ loc[r].cred = "wrong"
        /\ \E q \in Slots :
             /\ q < r /\ IsLogin(q) /\ Done(q) /\ Status(q) = 200
             /\ \E h \in DOMAIN store : store[h].id = loc[q].createdId /\ ~store[h].revoked

\* C25: every item of the refresh-token table carries the attributes
\* createRefreshToken writes: token_hash, user_id, expires_at, created_at and
\* revoked.
C25_RecordsWellFormed ==
    \A h \in DOMAIN store :
        /\ Has(store[h], "token_hash") /\ Has(store[h], "user_id")
        /\ Has(store[h], "expires_at") /\ Has(store[h], "created_at")
        /\ Has(store[h], "revoked")

\* C26: when a POST /auth/refresh answers 200, the item it has just written
\* and both tokens it delivers carry the user_id of the item getRefreshToken
\* returned for the presented token.
C26_RotationKeepsOwner ==
    [][\A r \in Slots :
         (Answers(r) /\ loc[r].entry = "refresh" /\ resp'[r].status = 200)
         => LET accessToken == resp'[r].cookies[1]
                newRefreshToken == resp'[r].cookies[2]
                h == sha256(newRefreshToken)
            IN /\ h \in DOMAIN store'
               /\ store'[h].id = loc[r].createdId
               /\ store'[h].user_id = loc[r].owner
               /\ accessToken.sub = loc[r].owner
               /\ newRefreshToken.sub = loc[r].owner]_vars

\* A refresh of the second registered user has answered 200 while the table
\* also holds an item of the first.
C26_Witness ==
    \E r \in Slots :
        /\ IsRefresh(r) /\ Done(r) /\ Status(r) = 200 /\ loc[r].owner = 2
        /\ \E h \in DOMAIN store : Has(store[h], "user_id") /\ store[h].user_id = 1

\* Slot r is a second run: the same operation with the same arguments as the
\* slot before it, started when that one had returned and all its writes had
\* landed, with nothing else in flight during either run and nothing started
\* since.
Rerun(r) ==
    /\ r > 1
    /\ loc[r].entry \in {"limit", "revokeAll"}
    /\ loc[r - 1].entry = loc[r].entry
    /\ loc[r - 1].user = loc[r].user
    /\ loc[r - 1].maxTokens = loc[r].maxTokens
    /\ Has(loc[r - 1].opResult, "returned")
    /\ conc[r - 1] = {} /\ conc[r] = {}
    /\ \A q \in Slots : q > r => pc[q] = "idle"

\* C21: a second run of revokeAllUserTokens or limitUserTokens, right after
\* a first with the same arguments, changes nothing in the table; and no
\* revoke write of either takes an item from revoked to not revoked.
C21_RerunChangesNothing ==
    [][/\ \A r \in Slots : Rerun(r)' => store' = store
       /\ \A r \in Slots :
            (loc[r].entry \in {"limit", "revokeAll"} /\ pend'[r] # pend[r] /\ pc[r] # "idle")
            => \A h \in DOMAIN store : store[h].revoked => (h \in DOMAIN store' /\ store'[h].revoked)]_vars

\* Request r is waiting for a store call.
Waiting(r) == pc[r] \notin {"idle", "done"}
\* The last scan page of sweep r has come back, without a LastEvaluatedKey,
\* and its deletes are on their way.
LastPageBack(r) == loc[r].entry = "sweep" /\ pc[r] = "deleting" /\ ~loc[r].lastEvaluatedKey

\* C22: when every store call is eventually answered, every request that
\* is waiting for one eventually ends, a sweep whose scan page came back
\* without a LastEvaluatedKey eventually returns, a login or refresh that
\* has ended has a status among 200, 400, 401, 403 and 500, and a response
\* once given is never replaced by another.
C22_EveryRequestAnswers ==
    /\ \A r \in Reqs : (Waiting(r) \/ LastPageBack(r)) ~> Done(r)
    /\ [](\A r \in Reqs : (Done(r) /\ (IsLogin(r) \/ IsRefresh(r))) => Status(r) \in {200, 400, 401, 403, 500})
    /\ [][\A r \in Reqs : Done(r) => (pc'[r] = "done" /\ resp'[r] = resp[r])]_vars

\* A sweep that was answered more than one scan page has returned, after a
\* login that answered 200.
C22_Witness ==
    /\ \E r \in Reqs : loc[r].entry = "sweep" /\ Done(r) /\ loc[r].pages > 1
                       /\ Has(loc[r].opResult, "returned")
    /\ \E r \in Reqs : IsLogin(r) /\ Done(r) /\ Status(r) = 200
====
